---- MODULE Spec2Model ----
(***************************************************************************)
(* Model of the mag-utils command line tools: the gloss segmenters         *)
(* (parsePrepGlosses, parseVoiceGlosses, parsePluralGlosses), the vocab    *)
(* exporters, the principal-parts exporters and the principal-parts        *)
(* linter.                                                                 *)
(*                                                                         *)
(* A Go string is modelled as a sequence of lexemes (tokens): a marker     *)
(* such as "(+ acc.)" or "(mid.)", one white space character, a semicolon, *)
(* a comma, a Greek word, a run of other text.  The empty string is <<>>.  *)
(* Every regular expression of the source is an operator on such           *)
(* sequences that matches what the expression matches on the lexemes.      *)
(***************************************************************************)
EXTENDS Integers, Sequences, FiniteSets, TLC

VARIABLES
    mode,     \* segmenter under test: "prep_vocab", "prep_to_anki", "voice", "plural"
    gloss,    \* the gloss handed to the segmenter
    result,   \* what the segmenter returned: [done, fatal, list]
    tool,     \* the program that runs
    opts,     \* its Options
    pc,       \* position of the run
    fatal,    \* "" or the log.Fatal message kind the process died with
    out,      \* what the output writer (wtr) has received: lines and rows
    buf,      \* rows held in the csv.Writer buffer, not yet flushed to wtr
    idmap,    \* idmap of exportVocab / exportPP
    count,    \* count of exportVocab
    unit,     \* the unit the loop is in
    stats,    \* the stats map of RunCLI
    errors,   \* the error counter of LintPP
    hist,     \* history: one record per entry the loop body was run for
    ghost     \* history: how much of the dataset was read, filtered, skipped

vars == <<mode, gloss, result, tool, opts, pc, fatal, out, buf, idmap, count,
          unit, stats, errors, hist, ghost>>

parseVars == <<mode, gloss, result>>
runVars == <<tool, opts, pc, fatal, out, buf, idmap, count, unit, stats, errors,
            hist, ghost>>

(***************************************************************************)
(* Bounds                                                                  *)
(***************************************************************************)
MaxGlossLen == 5
\* units a dataset holds at most
MaxUnits == 2
\* entries (words, verb records) of a dataset the run reads at most
MaxEntries == 3
\* largest -c/--count value tried
MaxCount == 2
\* rows the buffer of csv.NewWriter (a bufio.Writer) holds before it is
\* written through to wtr
BufRows == 2

(***************************************************************************)
(* Strings                                                                 *)
(***************************************************************************)
\* \pZ: the Unicode separators; of the lexemes only the blank is one
ZTokens == {" "}
\* unicode.IsSpace, used by strings.TrimSpace: blank, tab, newline
SpaceTokens == {" ", "\t", "\n"}

CaseMarkerTokens == {"(+ acc.)", "(+gen)", "(+ dat.)"}
VoiceMarkerTokens == {"(mid.)", "(pass.)", "(mid. or pass.)"}
PluralMarkerTokens == {"(pl.)"}
\* lexemes that begin with an opening parenthesis
ParenTokens == CaseMarkerTokens \cup VoiceMarkerTokens \cup PluralMarkerTokens \cup {"(fig.)", "("}

Min(a, b) == IF a < b THEN a ELSE b

RECURSIVE TrimLeftZ(_)
TrimLeftZ(s) == IF s # <<>> /\ Head(s) \in ZTokens THEN TrimLeftZ(Tail(s)) ELSE s

RECURSIVE TrimRightZ(_)
TrimRightZ(s) ==
    IF s # <<>> /\ s[Len(s)] \in ZTokens THEN TrimRightZ(SubSeq(s, 1, Len(s) - 1)) ELSE s

RECURSIVE TrimLeftSpace(_)
TrimLeftSpace(s) == IF s # <<>> /\ Head(s) \in SpaceTokens THEN TrimLeftSpace(Tail(s)) ELSE s

RECURSIVE TrimRightSpace(_)
TrimRightSpace(s) ==
    IF s # <<>> /\ s[Len(s)] \in SpaceTokens
    THEN TrimRightSpace(SubSeq(s, 1, Len(s) - 1)) ELSE s

\* strings.TrimSpace
TrimSpace(s) == TrimRightSpace(TrimLeftSpace(s))

\* index of the first semicolon of s, 0 if there is none
FirstSemicolon(s) ==
    IF \E k \in 1..Len(s) : s[k] = ";"
    THEN CHOOSE k \in 1..Len(s) : s[k] = ";" /\ \A j \in 1..(k - 1) : s[j] # ";"
    ELSE 0

\* reSemicolon.Split(s, -1), reSemicolon = \pZ*;\pZ* : the leftmost match
\* takes the separators before the first semicolon and all that follow it
RECURSIVE reSemicolonSplit(_)
reSemicolonSplit(s) ==
    LET k == FirstSemicolon(s) IN
    IF k = 0 THEN <<s>>
    ELSE <<TrimRightZ(SubSeq(s, 1, k - 1))>>
         \o reSemicolonSplit(TrimLeftZ(SubSeq(s, k + 1, Len(s))))

\* strings.Join(list, sep)
RECURSIVE Join(_, _)
Join(list, sep) ==
    IF list = <<>> THEN <<>>
    ELSE IF Len(list) = 1 THEN list[1]
    ELSE list[1] \o sep \o Join(Tail(list), sep)

\* the string "; "
SepStr == <<";", " ">>

(***************************************************************************)
(* Markers                                                                 *)
(***************************************************************************)
\* reCaseMarker = ^\(\+\pZ*(acc|gen|dat)\.?\) : submatch 1 of a marker lexeme
CaseOf(t) ==
    CASE t = "(+ acc.)" -> "acc"
      [] t = "(+gen)" -> "gen"
      [] t = "(+ dat.)" -> "dat"
      [] OTHER -> ""

\* reCaseMarker.FindStringSubmatch(entry): <<>> for nil, else <<match, case>>
reCaseMarker(entry) ==
    IF entry # <<>> /\ Head(entry) \in CaseMarkerTokens
    THEN <<Head(entry), CaseOf(Head(entry))>>
    ELSE <<>>

\* reVoiceMarker = ^\([^(]*(mid|pass)\.[^)]*\) : [^(]* is greedy, so of two
\* voices in one parenthesis the last one is submatch 1
VoiceOf(t) ==
    CASE t = "(mid.)" -> "mid"
      [] t = "(pass.)" -> "pass"
      [] t = "(mid. or pass.)" -> "pass"
      [] OTHER -> ""

reVoiceMarker(entry) ==
    IF entry # <<>> /\ Head(entry) \in VoiceMarkerTokens
    THEN <<Head(entry), VoiceOf(Head(entry))>>
    ELSE <<>>

\* rePluralMarker = ^\(pl\.\)
rePluralMarker(entry) ==
    IF entry # <<>> /\ Head(entry) \in PluralMarkerTokens
    THEN <<Head(entry)>>
    ELSE <<>>

(***************************************************************************)
(* Segments                                                                *)
(***************************************************************************)
\* CaseVoiceGloss{} of export_anki_vocab
EmptyCVG == [Case |-> "", Voice |-> "", Plural |-> FALSE, Marker |-> <<>>, Gloss |-> <<>>]
\* CaseGloss{} of export_to_anki
EmptyCG == [Case |-> "", Marker |-> <<>>, Gloss |-> <<>>]

\* the outcome of log.Fatalf inside a segmenter: the process exits
FatalResult == [fatal |-> TRUE, list |-> <<>>]

\* cg.Gloss += "; " + entry, dropping the entry
AppendEntry_Drop(cg, entry) == cg
\* cg.Gloss += "; " + entry
AppendEntry(cg, entry) == [cg EXCEPT !.Gloss = @ \o SepStr \o entry]

\* the case segment opened without trimming the rest of the clause
OpenCaseVocab_NoTrim(entry, m) ==
    [EmptyCVG EXCEPT !.Case = m[2], !.Marker = <<m[1]>>, !.Gloss = Tail(entry)]
\* gloss := strings.TrimSpace(strings.Replace(entry, matches[0], "", 1));
\* cg = CaseVoiceGloss{Case: matches[1], Marker: matches[0], Gloss: gloss}
OpenCaseVocab(entry, m) ==
    [EmptyCVG EXCEPT !.Case = m[2], !.Marker = <<m[1]>>,
                     !.Gloss = TrimSpace(Tail(entry))]

\* the case segment opened without its Case
OpenCaseToAnki_NoCase(entry, m) ==
    [EmptyCG EXCEPT !.Marker = <<m[1]>>, !.Gloss = entry]
\* cg = CaseGloss{Case: matches[1], Marker: matches[0], Gloss: entry}
OpenCaseToAnki(entry, m) ==
    [EmptyCG EXCEPT !.Case = m[2], !.Marker = <<m[1]>>, !.Gloss = entry]

\* the first-clause test of parsePrepGlosses, made on the second clause
PrepFirstEntry_Off(i) == i = 2
\* if i == 0 (the model counts clauses from 1)
PrepFirstEntry(i) == i = 1

\* parsePrepGlosses of export_anki_vocab: the loop from clause i on
RECURSIVE PrepLoopVocab(_, _, _, _)
PrepLoopVocab(entries, i, cg, cglist) ==
    IF i > Len(entries)
    THEN [fatal |-> FALSE, list |-> IF cg.Case # "" THEN Append(cglist, cg) ELSE cglist]
    ELSE LET entry == entries[i]
             m == reCaseMarker(entry)
         IN IF m = <<>>
            THEN IF PrepFirstEntry(i)
                 THEN FatalResult
                 ELSE PrepLoopVocab(entries, i + 1, AppendEntry(cg, entry), cglist)
            ELSE PrepLoopVocab(entries, i + 1, OpenCaseVocab(entry, m),
                               IF cg.Case # "" THEN Append(cglist, cg) ELSE cglist)

parsePrepGlossesVocab(g) == PrepLoopVocab(reSemicolonSplit(g), 1, EmptyCVG, <<>>)

\* parsePrepGlosses of export_to_anki
RECURSIVE PrepLoopToAnki(_, _, _, _)
PrepLoopToAnki(entries, i, cg, cglist) ==
    IF i > Len(entries)
    THEN [fatal |-> FALSE, list |-> IF cg.Case # "" THEN Append(cglist, cg) ELSE cglist]
    ELSE LET entry == entries[i]
             m == reCaseMarker(entry)
         IN IF m = <<>>
            THEN IF PrepFirstEntry(i)
                 THEN FatalResult
                 ELSE PrepLoopToAnki(entries, i + 1, AppendEntry(cg, entry), cglist)
            ELSE PrepLoopToAnki(entries, i + 1, OpenCaseToAnki(entry, m),
                                IF cg.Case # "" THEN Append(cglist, cg) ELSE cglist)

parsePrepGlossesToAnki(g) == PrepLoopToAnki(reSemicolonSplit(g), 1, EmptyCG, <<>>)

\* the unmarked clause taking the place of the open segment's gloss
AddUnmarked_Replace(cg, entry) == [cg EXCEPT !.Gloss = entry]
\* the unmarked clause of parseVoiceGlosses / parsePluralGlosses:
\* if cg.Gloss == "" { cg.Gloss = entry } else { cg.Gloss += "; " + entry }
AddUnmarked(cg, entry) ==
    IF cg.Gloss = <<>> THEN [cg EXCEPT !.Gloss = entry] ELSE AppendEntry(cg, entry)

\* the merge test of parseVoiceGlosses, never merging
SameVoice_Never(cg, voice) == FALSE
\* the merge test of parseVoiceGlosses, merging into any voice segment
SameVoice_Any(cg, voice) == cg.Voice # ""
\* if cg.Voice == voice
SameVoice(cg, voice) == cg.Voice = voice

RECURSIVE VoiceLoop(_, _, _, _)
VoiceLoop(entries, i, cg, cglist) ==
    IF i > Len(entries)
    THEN [fatal |-> FALSE, list |-> IF cg.Gloss # <<>> THEN Append(cglist, cg) ELSE cglist]
    ELSE LET entry == entries[i]
             m == reVoiceMarker(entry)
         IN IF m = <<>>
            THEN VoiceLoop(entries, i + 1, AddUnmarked(cg, entry), cglist)
            ELSE IF SameVoice(cg, m[2])
                 THEN VoiceLoop(entries, i + 1, AppendEntry(cg, entry), cglist)
                 ELSE VoiceLoop(entries, i + 1,
                                [EmptyCVG EXCEPT !.Voice = m[2], !.Gloss = entry],
                                IF cg.Gloss # <<>> THEN Append(cglist, cg) ELSE cglist)

parseVoiceGlosses(g) == VoiceLoop(reSemicolonSplit(g), 1, EmptyCVG, <<>>)

RECURSIVE PluralLoop(_, _, _, _)
PluralLoop(entries, i, cg, cglist) ==
    IF i > Len(entries)
    THEN [fatal |-> FALSE, list |-> IF cg.Gloss # <<>> THEN Append(cglist, cg) ELSE cglist]
    ELSE LET entry == entries[i]
             m == rePluralMarker(entry)
         IN IF m = <<>>
            THEN PluralLoop(entries, i + 1, AddUnmarked(cg, entry), cglist)
            ELSE PluralLoop(entries, i + 1,
                            [EmptyCVG EXCEPT !.Plural = TRUE, !.Gloss = entry],
                            IF cg.Gloss # <<>> THEN Append(cglist, cg) ELSE cglist)

parsePluralGlosses(g) == PluralLoop(reSemicolonSplit(g), 1, EmptyCVG, <<>>)

(***************************************************************************)
(* Output: wtr receives items [kind, v]; kind is "line" (a header line),   *)
(* "row" (a CSV record), "msg" (a lint message) or "stats" (the JSON line) *)
(***************************************************************************)
Line(text) == [kind |-> "line", v |-> <<text>>]
Row(cols) == [kind |-> "row", v |-> cols]
Msg(text) == [kind |-> "msg", v |-> text]

\* cwtr.Write(record) for each of rows in turn: a record goes to the buffer
\* of the csv.Writer; a full buffer is written through to wtr first
RECURSIVE CsvWrite(_, _, _)
CsvWrite(o, b, rows) ==
    IF rows = <<>> THEN [out |-> o, buf |-> b]
    ELSE IF Len(b) >= BufRows
         THEN CsvWrite(o \o b, <<Row(Head(rows))>>, Tail(rows))
         ELSE CsvWrite(o, Append(b, Row(Head(rows))), Tail(rows))

(***************************************************************************)
(* The vocab exporters: export_anki_vocab ("vocab") and export_to_anki     *)
(* ("to_anki")                                                             *)
(***************************************************************************)
VocabTools == {"vocab", "to_anki"}

deckNameGrEn == "Mastronarde Attic Greek Vocab (Greek-to-English)"

posMap(pos) ==
    CASE pos = "adj" -> "adjective"
      [] pos = "adv" -> "adverb"
      [] pos = "conj" -> "conjunction"
      [] pos = "n" -> "noun"
      [] pos = "part" -> "particle"
      [] pos = "prep" -> "preposition"
      [] pos = "pron" -> "pronoun"
      [] pos = "v" -> "verb"
      [] OTHER -> ""

\* reCommaStar.ReplaceAllString(s, ""), reCommaStar = ,.*$ : s is cut at its
\* first comma that no line break follows ("." stops at a line break)
reCommaStar(s) ==
    LET cuts == {k \in 1..Len(s) :
                    s[k] = "," /\ \A j \in (k + 1)..Len(s) : s[j] # "\n"}
    IN IF cuts = {} THEN s
       ELSE SubSeq(s, 1, (CHOOSE k \in cuts : \A j \in cuts : k <= j) - 1)

\* the id of a word, the comma and what follows it kept
VocabId_KeepComma(w) == IF w.Id # <<>> THEN w.Id ELSE w.Gr
\* if w.Id != "" { id = w.Id } else { id = reCommaStar.ReplaceAllString(w.Gr, "") }
VocabId(w) == IF w.Id # <<>> THEN w.Id ELSE reCommaStar(w.Gr)

\* the duplicate test that finds nothing
IdExists_Never(id, m) == FALSE
\* if _, exists := idmap[id]; exists
IdExists(id, m) == id \in m

\* the unit filter that lets every unit through
UnitFiltered_Never(o, u) == FALSE
\* if opts.Unit > 0 && u.Unit != opts.Unit { continue }
UnitFiltered(o, u) == o.Unit > 0 /\ u.Unit # o.Unit

\* first index from k on whose lexeme is no separator (Len(s) + 1 if none)
RECURSIVE SkipZ(_, _)
SkipZ(s, k) == IF k <= Len(s) /\ s[k] \in ZTokens THEN SkipZ(s, k + 1) ELSE k

\* reSemicolonParenthesis.ReplaceAllString(s, "<br>("),
\* reSemicolonParenthesis = \pZ*;\pZ*\(
RECURSIVE reSemicolonParenthesis(_)
reSemicolonParenthesis(s) ==
    IF s = <<>> THEN <<>>
    ELSE LET a == SkipZ(s, 1)
             b == SkipZ(s, a + 1)
         IN IF a <= Len(s) /\ s[a] = ";" /\ b <= Len(s) /\ s[b] \in ParenTokens
            THEN <<"<br>", s[b]>> \o reSemicolonParenthesis(SubSeq(s, b + 1, Len(s)))
            ELSE <<Head(s)>> \o reSemicolonParenthesis(Tail(s))

\* front := w.Gr; if w.GrExt != "" { front += " " + w.GrExt }
VocabFront(w) == IF w.GrExt # <<>> THEN w.Gr \o <<" ">> \o w.GrExt ELSE w.Gr

\* tagstr and deck of a word of unit u
VocabTags(w) == <<"pos::", posMap(w.Pos)>>
VocabDeck(u) == <<deckNameGrEn, "::">> \o u.Name

\* the segmenter exportVocab applies to a word: [fatal, list]
VocabGlosses(t, w) ==
    IF t = "vocab"
    THEN IF w.Pos = "prep" THEN parsePrepGlossesVocab(w.En)
         ELSE IF w.GrMP # <<>> THEN parseVoiceGlosses(w.En)
         ELSE IF w.GrPl # <<>> THEN parsePluralGlosses(w.En)
         ELSE [fatal |-> FALSE, list |-> <<>>]
    ELSE IF w.Pos = "prep" THEN parsePrepGlossesToAnki(w.En)
         ELSE [fatal |-> FALSE, list |-> <<>>]

\* the rows of the loop over glosses in export_anki_vocab, from segment k
\* on; front is the variable the loop keeps assigning
RECURSIVE SplitRowsVocab(_, _, _, _, _, _)
SplitRowsVocab(w, u, id, glosses, k, front) ==
    IF k > Len(glosses) THEN <<>>
    ELSE LET cg == glosses[k]
             isCase == cg.Case # ""
             isVoice == ~isCase /\ cg.Voice \in {"mid", "pass"} /\ w.GrMP # <<>>
             isPl == ~isCase /\ ~isVoice /\ w.GrPl # <<>> /\ cg.Plural
             id2 == IF isCase THEN id \o <<"-", cg.Case>>
                    ELSE IF isVoice THEN w.GrMP
                    ELSE IF isPl THEN reCommaStar(w.GrPl)
                    ELSE id
             front2 == IF isCase
                       THEN (w.Gr \o <<" ">> \o cg.Marker)
                            \o (IF w.GrExt # <<>> THEN <<" ">> \o w.GrExt ELSE <<>>)
                       ELSE IF isVoice THEN w.GrMP
                       ELSE IF isPl THEN w.GrPl
                       ELSE front
             back == reSemicolonParenthesis(cg.Gloss)
         IN <<<<id2, front2, back, VocabTags(w), VocabDeck(u)>>>>
            \o SplitRowsVocab(w, u, id, glosses, k + 1, front2)

\* the rows of the loop over glosses in export_to_anki
SplitRowsToAnki(w, u, id, glosses) ==
    [k \in 1..Len(glosses) |->
        <<id \o <<"-", glosses[k].Case>>,
          (w.Gr \o <<" ">> \o glosses[k].Marker)
              \o (IF w.GrExt # <<>> THEN <<" ">> \o w.GrExt ELSE <<>>),
          glosses[k].Gloss, VocabTags(w), VocabDeck(u)>>]

\* the single row of a word that is not split
SingleRow(t, w, u, id) ==
    LET back0 == IF t = "vocab" THEN reSemicolonParenthesis(w.En) ELSE w.En
        back1 == IF w.EnExt # <<>> THEN back0 \o <<"<br><i>">> \o w.EnExt \o <<"</i>">>
                 ELSE back0
        back2 == IF w.Cog # <<>> THEN back1 \o <<"<br>[">> \o w.Cog \o <<"]">> ELSE back1
    IN <<id, VocabFront(w), back2, VocabTags(w), VocabDeck(u)>>

\* the split test, taken for a single segment too
IsSplit_One(glosses) == Len(glosses) >= 1
\* if len(glosses) > 1
IsSplit(glosses) == Len(glosses) > 1

\* the rows of a word, the single row written after the split rows too
WordRows_Both(t, w, u, id, glosses) ==
    (IF Len(glosses) > 1
     THEN IF t = "vocab" THEN SplitRowsVocab(w, u, id, glosses, 1, VocabFront(w))
          ELSE SplitRowsToAnki(w, u, id, glosses)
     ELSE <<>>)
    \o <<SingleRow(t, w, u, id)>>
\* the rows written for a word whose segmenter returned glosses
WordRows(t, w, u, id, glosses) ==
    IF IsSplit(glosses)
    THEN IF t = "vocab" THEN SplitRowsVocab(w, u, id, glosses, 1, VocabFront(w))
         ELSE SplitRowsToAnki(w, u, id, glosses)
    ELSE <<SingleRow(t, w, u, id)>>

\* one pass of the word loop of exportVocab up to the rows:
\* [res, rows], res "ok" or the fatal error the pass ends in
WordOutcome(t, w, u, m) ==
    LET id == VocabId(w) IN
    IF IdExists(id, m) THEN [res |-> "dup", rows |-> <<>>]
    ELSE IF posMap(w.Pos) = "" THEN [res |-> "pos", rows |-> <<>>]
    ELSE LET g == VocabGlosses(t, w) IN
         IF g.fatal THEN [res |-> "gloss", rows |-> <<>>]
         ELSE [res |-> "ok", rows |-> WordRows(t, w, u, id, g.list)]

\* the count test that never ends the word loop
CountReached_Never(o, c) == FALSE
\* if opts.Count > 0 && count > opts.Count { break }
CountReached(o, c) == o.Count > 0 /\ c > o.Count

(***************************************************************************)
(* The principal-parts exporters: export_anki_pp ("anki_pp", with          *)
(* -i/--incr and -r/--rev), the exporter with -n/--num ("pp_num") and the  *)
(* exporter with -n/--num and -r/--rev ("pp_rev").  Greek words are         *)
(* written in Latin transliteration; GreekTokens are the lexemes that      *)
(* \p{Greek}+ matches.                                                     *)
(***************************************************************************)
PPTools == {"anki_pp", "pp_num", "pp_rev"}
NumTools == {"pp_num", "pp_rev"}

GreekTokens == {"lyo", "lyso", "elysa", "lelyka", "lelymai", "elythen",
                "echo", "hexo", "scheso", "eschon",
                "phero", "enenka", "enenkon", "enenocha", "leipo", "leipso", "leipsomai"}

\* reAlternates.FindStringSubmatch(s) tried at position i,
\* reAlternates = (\()?(\p{Greek}+)\pZ+(or|and)\pZ+(\p{Greek}+)(\))? :
\* <<>> for no match, else <<paren1, part1, conj, part2, paren2>>
AlternatesAt(s, i) ==
    LET p1 == IF s[i] = "(" THEN <<"(">> ELSE <<>>
        j == i + Len(p1)
        a == SkipZ(s, j + 1)
        b == SkipZ(s, a + 1)
    IN IF /\ j <= Len(s) /\ s[j] \in GreekTokens
          /\ a > j + 1 /\ a <= Len(s) /\ s[a] \in {"or", "and"}
          /\ b > a + 1 /\ b <= Len(s) /\ s[b] \in GreekTokens
       THEN <<p1, <<s[j]>>, s[a], <<s[b]>>,
              IF b + 1 <= Len(s) /\ s[b + 1] = ")" THEN <<")">> ELSE <<>> >>
       ELSE <<>>

\* the leftmost match
reAlternates(s) ==
    LET hits == {i \in 1..Len(s) : AlternatesAt(s, i) # <<>>}
    IN IF hits = {} THEN <<>>
       ELSE AlternatesAt(s, CHOOSE i \in hits : \A k \in hits : i <= k)

\* labeltag := reSpace.ReplaceAllString(strings.ToLower(label), "_")
LabelTag(label) ==
    CASE label = "Future" -> "future"
      [] label = "Aorist" -> "aorist"
      [] label = "Perfect" -> "perfect"
      [] label = "Perfect Middle" -> "perfect_middle"
      [] label = "Aorist Passive" -> "aorist_passive"
      [] OTHER -> ""

\* the row of exportSingleEntry, front and back never exchanged
SingleEntryRow_NoRev(deck, id, label, ppstr, conj, n, reverse) ==
    <<ppstr, ppstr, <<label>> \o <<" of ">> \o id, <<"pp::", LabelTag(label)>>, deck>>
\* exportSingleEntry: the row it writes
SingleEntryRow(deck, id, label, ppstr, conj, n, reverse) ==
    LET tagstr == <<"pp::", LabelTag(label)>>
        nstr == IF n = 1 THEN <<" #1">> ELSE IF n = 2 THEN <<" #2">> ELSE <<>>
        meaning == IF conj = "and" THEN <<" (diff. meaning)">>
                   ELSE IF conj = "or" THEN <<" (same meaning)">>
                   ELSE <<>>
        back == <<label>> \o nstr \o <<" of ">> \o id \o meaning
    IN IF ~reverse THEN <<ppstr, ppstr, back, tagstr, deck>>
       ELSE <<ppstr, back, ppstr, tagstr, deck>>

\* the test before log.Fatal("missing paren2 in alternate:", ppstr):
\* export_anki_pp tests paren2 == "", the two -n/--num exporters paren2 != ""
Paren2Fatal(t, paren2) == IF t = "anki_pp" THEN paren2 = <<>> ELSE paren2 # <<>>

\* exportEntry: [fatal, rows]
exportEntry(t, deck, id, label, ppstr, reverse) ==
    LET m == reAlternates(ppstr) IN
    IF m = <<>>
    THEN [fatal |-> FALSE,
          rows |-> <<SingleEntryRow(deck, id, label, ppstr, "", 0, reverse)>>]
    ELSE IF m[1] # <<>> /\ Paren2Fatal(t, m[5])
         THEN [fatal |-> TRUE, rows |-> <<>>]
         ELSE LET part1 == IF m[1] # <<>> THEN <<"(">> \o m[2] \o <<")">> ELSE m[2]
                  part2 == IF m[1] # <<>> THEN <<"(">> \o m[4] \o <<")">> ELSE m[4]
              IN [fatal |-> FALSE,
                  rows |-> <<SingleEntryRow(deck, id, label, part1, m[3], 1, reverse),
                             SingleEntryRow(deck, id, label, part2, m[3], 2, reverse)>>]

\* deck names
ppDeckNameGrEn == "Mastronarde Attic Greek Principal Parts (Greek-to-English)"
decknameGrEn == "Mastronarde AtticGreek Principal Parts (GrEn)"
decknameEnGr == "Mastronarde AtticGreek Principal Parts (EnGr)"
deckname == "Mastronarde AtticGreek Principal Parts"
pp1 == "PPA"
pp2 == "PPB"
pp3 == "PPC"

\* formatDeckname of export_anki_pp
formatDeckname(o) ==
    LET direction == IF o.Reverse THEN "EnGr" ELSE "GrEn" IN
    IF ~o.Incremental THEN <<deckname, " (", direction, ")">>
    ELSE <<deckname, " (", "Incr", ",", direction, ")">>

\* the deck name the exporter t puts before the unit name
PPDeckname(t, o) ==
    CASE t = "anki_pp" -> formatDeckname(o)
      [] t = "pp_num" -> <<ppDeckNameGrEn>>
      [] OTHER -> IF o.Reverse THEN <<decknameEnGr>> ELSE <<decknameGrEn>>

\* deckslice at the start of a unit (export_anki_pp); the other exporters
\* join deck name and unit name
InitDeckslice(t, o, u) ==
    IF t = "anki_pp" /\ o.Incremental
    THEN <<formatDeckname(o), <<pp1>>, u.Name>>
    ELSE <<PPDeckname(t, o), u.Name>>

\* the gate of -n/--num that lets every part through
NumAllows_All(o, n) == TRUE
\* opts.Num >= 3, >= 4, >= 5 and opts.Num == 6 before parts 3 to 6
NumAllows(o, n) == IF n = 2 THEN TRUE ELSE IF n = 6 THEN o.Num = 6 ELSE o.Num >= n

\* the five exportEntry calls of exportPP in source order:
\* part number, label, string, sub-deck
PartList(pp) ==
    << [n |-> 2, label |-> "Future", str |-> pp.Future, sub |-> pp1],
       [n |-> 3, label |-> "Aorist", str |-> pp.Aorist, sub |-> pp1],
       [n |-> 4, label |-> "Perfect", str |-> pp.Perfect, sub |-> pp3],
       [n |-> 5, label |-> "Perfect Middle", str |-> pp.PerfMid, sub |-> pp3],
       [n |-> 6, label |-> "Aorist Passive", str |-> pp.AorPass, sub |-> pp2] >>

\* whether exportPP calls exportEntry for part x
PartWanted(t, o, x) == x.str # <<>> /\ (t \in NumTools => NumAllows(o, x.n))

\* the sub-deck assignment that is missing before the Aorist entry
SetSubdeck_NotAorist(t, o, ds, x) ==
    IF t = "anki_pp" /\ o.Incremental /\ x.n # 3 THEN [ds EXCEPT ![2] = <<x.sub>>] ELSE ds
\* if opts.Incremental { deckslice[1] = pp1 / pp2 / pp3 } before exportEntry
SetSubdeck(t, o, ds, x) ==
    IF t = "anki_pp" /\ o.Incremental THEN [ds EXCEPT ![2] = <<x.sub>>] ELSE ds

\* the exportEntry calls of one verb record from part k on, given the rows
\* written so far and deckslice: [res, rows, deckslice]
RECURSIVE PartsLoop(_, _, _, _, _, _, _)
PartsLoop(t, o, id, parts, k, rows, ds) ==
    IF k > Len(parts) THEN [res |-> "ok", rows |-> rows, deckslice |-> ds]
    ELSE LET x == parts[k] IN
         IF ~PartWanted(t, o, x) THEN PartsLoop(t, o, id, parts, k + 1, rows, ds)
         ELSE LET ds2 == SetSubdeck(t, o, ds, x)
                  e == exportEntry(t, Join(ds2, <<"::">>), id, x.label, x.str, o.Reverse)
              IN IF e.fatal THEN [res |-> "paren", rows |-> rows, deckslice |-> ds2]
                 ELSE PartsLoop(t, o, id, parts, k + 1, rows \o e.rows, ds2)

\* one pass of the record loop of exportPP after the unit filter
RecordOutcome(t, o, pp, m, ds) ==
    IF IdExists(pp.Present, m) THEN [res |-> "dup", rows |-> <<>>, deckslice |-> ds]
    ELSE PartsLoop(t, o, pp.Present, PartList(pp), 1, <<>>, ds)

(***************************************************************************)
(* The linter ("lint")                                                     *)
(***************************************************************************)
\* reEntry.MatchString(word), reEntry =
\* ^\(?-?\p{Greek}+( (or|and) \p{Greek}+)?(\pZ+\(stem \p{Greek}+-\))?\)?$
reEntry(s) ==
    LET At(k) == IF k <= Len(s) THEN s[k] ELSE ""
        a == IF At(1) = "(" THEN 2 ELSE 1
        b == IF At(a) = "-" THEN a + 1 ELSE a
        c == b + 1
        d == IF At(c) = " " /\ At(c + 1) \in {"or", "and"} /\ At(c + 2) = " "
                /\ At(c + 3) \in GreekTokens
             THEN c + 4 ELSE c
        z == SkipZ(s, d)
        e == IF z > d /\ At(z) = "(stem " /\ At(z + 1) \in GreekTokens /\ At(z + 2) = "-)"
             THEN z + 3 ELSE d
        f == IF At(e) = ")" THEN e + 1 ELSE e
    IN At(b) \in GreekTokens /\ f = Len(s) + 1

\* checkWord
checkWord(word) == reEntry(word)

\* LintRecord: the messages it writes, one per bad non-empty part
LintRecord(rec, label) ==
    LET fields == << <<"pr", rec.Present>>, <<"fu", rec.Future>>, <<"ao", rec.Aorist>>,
                     <<"pf", rec.Perfect>>, <<"pm", rec.PerfMid>>, <<"ap", rec.AorPass>> >>
        bad == SelectSeq(fields, LAMBDA x : x[2] # <<>> /\ ~checkWord(x[2]))
    IN [k \in 1..Len(bad) |-> Msg(<<"Bad ", bad[k][1], " entry found">> \o label
                                   \o <<": ">> \o bad[k][2])]

\* the label of a unit in LintPP
LintLabel(u) ==
    IF u.Name # <<>> THEN <<" for unit ">> \o u.Name
    ELSE IF u.Unit >= 3 THEN <<" for unit ", ToString(u.Unit)>>
    ELSE <<>>

\* the messages of LintPP about the unit itself
LintUnitMsgs(u, empty) ==
    LET label == LintLabel(u) IN
    (IF u.Name = <<>> THEN <<Msg(<<"Empty unit 'name' field found">> \o label)>> ELSE <<>>)
    \o (IF u.Unit = 0 THEN <<Msg(<<"Empty unit 'unit' field found">> \o label)>>
        ELSE IF u.Unit < 5 \/ u.Unit > 42
             THEN <<Msg(<<"Invalid unit 'unit' field found">> \o label
                        \o <<": ", ToString(u.Unit)>>)>>
             ELSE <<>>)
    \o (IF empty THEN <<Msg(<<"Empty unit 'pp' list found">> \o label)>> ELSE <<>>)

\* stats: the map of RunCLI, as the set of its keys and their values
EmptyStats == [keys |-> {}, units |-> 0, records |-> 0, errors |-> 0]

\* the stats test that always prints
StatsNonEmpty_Always(st) == TRUE
\* if len(stats) > 0
StatsNonEmpty(st) == Cardinality(st.keys) > 0

\* json.MarshalIndent(stats) written with fmt.Fprintln: the keys present,
\* in sorted order, with their values
StatsLine(st) ==
    [kind |-> "stats",
     v |-> (IF "errors" \in st.keys THEN <<"errors", ToString(st.errors)>> ELSE <<>>)
           \o (IF "records" \in st.keys THEN <<"records", ToString(st.records)>> ELSE <<>>)
           \o (IF "units" \in st.keys THEN <<"units", ToString(st.units)>> ELSE <<>>)]

(***************************************************************************)
(* Datasets and options                                                    *)
(***************************************************************************)
Str0 == <<>>

Word(gr, grmp, grpl, id, en, cog, pos) ==
    [Gr |-> gr, GrMP |-> grmp, GrPl |-> grpl, GrExt |-> Str0, Id |-> id,
     En |-> en, EnExt |-> Str0, Cog |-> cog, Pos |-> pos]

\* the words a vocab dataset is made of
VocabPool ==
    { Word(<<"logos", ",", " ", "-ou">>, Str0, Str0, Str0, <<"word">>, <<"logic">>, "n"),
      Word(<<"logion">>, Str0, Str0, <<"logos">>, <<"saying">>, Str0, "n"),
      Word(<<"epi">>, Str0, Str0, Str0,
           <<"(+gen)", " ", "upon", ";", " ", "(+ dat.)", " ", "at">>, Str0, "prep"),
      Word(<<"ek">>, Str0, Str0, Str0, <<"(+gen)", " ", "out of">>, Str0, "prep"),
      Word(<<"pros">>, Str0, Str0, Str0, <<"to", ";", " ", "(+ acc.)", " ", "toward">>,
           Str0, "prep"),
      Word(<<"pauo">>, <<"pauomai">>, Str0, Str0,
           <<"stop", ";", " ", "(mid.)", " ", "cease">>, Str0, "v"),
      Word(<<"grapho">>, <<"graphomai">>, Str0, Str0,
           <<"(mid.)", " ", "indict", ";", " ", "(pass.)", " ", "be written">>, Str0, "v"),
      Word(<<"meros">>, Str0, <<"mere", ",", " ", "-on">>, Str0,
           <<"part", ";", " ", "(pl.)", " ", "parts">>, Str0, "n"),
      Word(<<"kai">>, Str0, Str0, Str0, <<"and">>, Str0, "x") }

Parts(pr, fu, ao, pf, pm, ap) ==
    [Present |-> pr, Future |-> fu, Aorist |-> ao, Perfect |-> pf, PerfMid |-> pm,
     AorPass |-> ap]

\* the verb records a principal-parts dataset is made of
PPPool ==
    { Parts(<<"lyo">>, <<"lyso">>, <<"elysa">>, <<"lelyka">>, <<"lelymai">>, <<"elythen">>),
      Parts(<<"echo">>, <<"hexo", " ", "or", " ", "scheso">>, <<"eschon">>, Str0, Str0, Str0),
      Parts(<<"phero">>, Str0, <<"(", "enenka", " ", "and", " ", "enenkon", ")">>,
            <<"enenocha">>, Str0, Str0),
      Parts(<<"leipo">>, <<"(", "leipso", " ", "or", " ", "leipsomai">>, Str0, Str0,
            Str0, <<"xyz">>) }

UnitNumbers == {5, 6}
Unit(n, name) == [Unit |-> n, Name |-> name, deckslice |-> <<>>]
NoUnit == Unit(0, <<>>)
\* the units of an exporter's dataset (without their entries)
Units == {Unit(n, <<"Unit ", ToString(n)>>) : n \in UnitNumbers}
\* the units of the linter's dataset: a well-formed one, one without name,
\* one without name and number, one with a number out of range
LintUnits == {Unit(5, <<"Unit">>), Unit(3, <<>>), Unit(0, <<>>), Unit(43, <<"Unit">>)}
\* the verb records of the linter's dataset: a well-formed one, a bad one
LintPool == {pp \in PPPool : pp.Present \in {<<"lyo">>, <<"leipo">>}}

\* -n/--num: the values main accepts, and the values tried
NumMin == 2
NumMax == 6
NumValues == (NumMin - 1)..(NumMax + 1)

AllTools == VocabTools \cup PPTools \cup {"lint"}

Options(t) ==
    [Unit : {0, 5},
     Count : IF t \in VocabTools THEN 0..MaxCount ELSE {0},
     Num : IF t \in NumTools THEN NumValues ELSE {NumMax},
     Reverse : IF t \in {"anki_pp", "pp_rev"} THEN BOOLEAN ELSE {FALSE},
     Incremental : IF t = "anki_pp" THEN BOOLEAN ELSE {FALSE}]

NoGhost == [units |-> 0, entries |-> 0, filtered |-> 0, broken |-> 0, inUnit |-> 0]

\* the variables of the segmenters, idle during a tool run
IdleParse == mode = "none" /\ gloss = <<>> /\ result = [done |-> FALSE, fatal |-> FALSE, list |-> <<>>]

Init ==
    /\ IdleParse
    /\ tool \in AllTools
    /\ opts \in Options(tool)
    /\ pc = "main"
    /\ fatal = ""
    /\ out = <<>> /\ buf = <<>>
    /\ idmap = {} /\ count = 0
    /\ unit = NoUnit
    /\ stats = EmptyStats
    /\ errors = 0
    /\ hist = <<>>
    /\ ghost = NoGhost

(***************************************************************************)
(* main and RunCLI                                                         *)
(***************************************************************************)
\* if opts.Num < 2 || opts.Num > 6 { log.Fatal(...) }
NumInvalid(o) == o.Num < NumMin \/ o.Num > NumMax

\* main up to the call of RunCLI
Main ==
    /\ pc = "main"
    /\ IF tool \in NumTools /\ NumInvalid(opts)
       THEN fatal' = "num" /\ pc' = "exit"
       ELSE fatal' = fatal /\ pc' = "read"
    /\ UNCHANGED <<tool, opts, out, buf, idmap, count, unit, stats, errors, hist, ghost>>
    /\ UNCHANGED parseVars

\* RunCLI: os.ReadFile or yaml.Unmarshal fails, main ends in log.Fatal(err)
ReadFail ==
    /\ pc = "read"
    /\ fatal' = "read" /\ pc' = "exit"
    /\ UNCHANGED <<tool, opts, out, buf, idmap, count, unit, stats, errors, hist, ghost>>
    /\ UNCHANGED parseVars

\* the header lines an exporter writes to wtr before the first entry
Header(t, o) ==
    CASE t \in VocabTools ->
           << Line("# This is an export of the MAG vocab dataset in Anki CSV format (Greek-to-English)"),
              Line("#separator:Comma"), Line("#columns:ID,Front,Back,Tags,DeckName"),
              Line("#deck column:5"), Line("#html:true") >>
      [] t = "pp_num" ->
           << Line("# This is an export of the MAG principal parts dataset in Anki CSV format (Greek-to-English)"),
              Line("#separator:Comma"), Line("#columns:ID,Front,Back,Tags,DeckName"),
              Line("#deck column:5"), Line("#html:false") >>
      [] t = "pp_rev" ->
           << Line(IF o.Reverse
                   THEN "# This is an export of the MAG principal parts dataset in Anki CSV format (English-to-Greek)"
                   ELSE "# This is an export of the MAG principal parts dataset in Anki CSV format (Greek-to-English)"),
              Line("#separator:Comma"), Line("#columns:ID,Front,Back,Tags,DeckName"),
              Line(IF o.Reverse THEN "#notetype:MAG PP EnGr" ELSE "#notetype:MAG PP GrEn"),
              Line("#deck column:5"), Line("#html:false") >>
      [] OTHER ->
           << [kind |-> "line", v |-> <<"# ">> \o formatDeckname(o) \o <<" Anki CSV export">>],
              Line("#separator:Comma"), Line("#columns:ID,Front,Back,Tags,DeckName"),
              Line(IF o.Reverse THEN "#notetype:MAG PP EnGr" ELSE "#notetype:MAG PP GrEn"),
              Line("#deck column:5"), Line("#html:false") >>

\* exportVocab / exportPP up to the loop over the units
BeginExport ==
    /\ pc = "read" /\ tool \in VocabTools \cup PPTools
    /\ out' = out \o Header(tool, opts)
    /\ count' = 1
    /\ idmap' = {}
    /\ pc' = "units"
    /\ UNCHANGED <<tool, opts, fatal, buf, unit, stats, errors, hist, ghost>>
    /\ UNCHANGED parseVars

\* the loop over the units has ended: cwtr.Flush(), return to RunCLI, the
\* stats line if the stats map is not empty, return nil
FinishExport ==
    /\ pc = "units" /\ tool \in VocabTools \cup PPTools
    /\ out' = (out \o buf) \o (IF StatsNonEmpty(stats) THEN <<StatsLine(stats)>> ELSE <<>>)
    /\ buf' = <<>>
    /\ pc' = "done"
    /\ UNCHANGED <<tool, opts, fatal, idmap, count, unit, stats, errors, hist, ghost>>
    /\ UNCHANGED parseVars

(***************************************************************************)
(* exportVocab: the loops over units and words.  The dataset is read as    *)
(* the loops reach it: a unit when the unit loop gets to it, a word when   *)
(* the word loop gets to it; ghost counts what was read.                   *)
(***************************************************************************)
Entry(e, u, res, rows) == [e |-> e, u |-> u.Unit, res |-> res, rows |-> rows]

\* a unit with k words that the unit filter passes over
VocabUnitSkip ==
    /\ pc = "units" /\ tool \in VocabTools
    /\ ghost.units < MaxUnits
    /\ \E u \in Units, k \in 0..(MaxEntries - ghost.entries) :
          /\ UnitFiltered(opts, u)
          /\ ghost' = [ghost EXCEPT !.units = @ + 1, !.entries = @ + k,
                                    !.filtered = @ + 1]
    /\ UNCHANGED <<tool, opts, pc, fatal, out, buf, idmap, count, unit, stats, errors, hist>>
    /\ UNCHANGED parseVars

\* a unit the unit filter lets through: the word loop starts
VocabUnitEnter ==
    /\ pc = "units" /\ tool \in VocabTools
    /\ ghost.units < MaxUnits
    /\ \E u \in Units :
          /\ ~UnitFiltered(opts, u)
          /\ unit' = u
    /\ ghost' = [ghost EXCEPT !.units = @ + 1]
    /\ pc' = "words"
    /\ UNCHANGED <<tool, opts, fatal, out, buf, idmap, count, stats, errors, hist>>
    /\ UNCHANGED parseVars

\* one pass of the word loop, for the next word w of the unit; when the
\* count test breaks the loop, the k words left in the unit are not read
VocabWord ==
    /\ pc = "words" /\ tool \in VocabTools
    /\ ghost.entries < MaxEntries
    /\ \E w \in VocabPool :
          LET r == WordOutcome(tool, w, unit, idmap)
              wr == CsvWrite(out, buf, r.rows)
          IN /\ hist' = Append(hist, Entry(w, unit, r.res, r.rows))
             /\ IF r.res # "ok"
                THEN /\ fatal' = r.res
                     /\ pc' = "exit"
                     /\ idmap' = IF r.res = "dup" THEN idmap ELSE idmap \cup {VocabId(w)}
                     /\ ghost' = [ghost EXCEPT !.entries = @ + 1]
                     /\ UNCHANGED <<out, buf, count, unit>>
                ELSE /\ fatal' = fatal
                     /\ idmap' = idmap \cup {VocabId(w)}
                     /\ out' = wr.out
                     /\ buf' = wr.buf
                     /\ count' = count + 1
                     /\ IF CountReached(opts, count + 1)
                        THEN /\ pc' = "units"
                             /\ unit' = NoUnit
                             /\ \E k \in 0..(MaxEntries - ghost.entries - 1) :
                                   ghost' = [ghost EXCEPT !.entries = @ + 1 + k,
                                                          !.broken = @ + k]
                        ELSE /\ pc' = "words"
                             /\ unit' = unit
                             /\ ghost' = [ghost EXCEPT !.entries = @ + 1]
    /\ UNCHANGED <<tool, opts, stats, errors>>
    /\ UNCHANGED parseVars

\* the words of the unit are exhausted
VocabUnitEnd ==
    /\ pc = "words" /\ tool \in VocabTools
    /\ pc' = "units"
    /\ unit' = NoUnit
    /\ UNCHANGED <<tool, opts, fatal, out, buf, idmap, count, stats, errors, hist, ghost>>
    /\ UNCHANGED parseVars

(***************************************************************************)
(* exportPP: the loops over units and verb records                         *)
(***************************************************************************)
\* the unit loop reaches a unit: deck / deckslice are set
PPUnitEnter ==
    /\ pc = "units" /\ tool \in PPTools
    /\ ghost.units < MaxUnits
    /\ \E u \in Units : unit' = [u EXCEPT !.deckslice = InitDeckslice(tool, opts, u)]
    /\ ghost' = [ghost EXCEPT !.units = @ + 1]
    /\ pc' = "records"
    /\ UNCHANGED <<tool, opts, fatal, out, buf, idmap, count, stats, errors, hist>>
    /\ UNCHANGED parseVars

\* a record of a unit the unit filter passes over
PPRecordSkip ==
    /\ pc = "records" /\ tool \in PPTools
    /\ ghost.entries < MaxEntries
    /\ UnitFiltered(opts, unit)
    /\ \E pp \in PPPool :
          ghost' = [ghost EXCEPT !.entries = @ + 1, !.filtered = @ + 1]
    /\ UNCHANGED <<tool, opts, pc, fatal, out, buf, idmap, count, unit, stats, errors, hist>>
    /\ UNCHANGED parseVars

\* one pass of the record loop for the next record pp of the unit
PPRecord ==
    /\ pc = "records" /\ tool \in PPTools
    /\ ghost.entries < MaxEntries
    /\ ~UnitFiltered(opts, unit)
    /\ \E pp \in PPPool :
          LET r == RecordOutcome(tool, opts, pp, idmap, unit.deckslice)
              wr == CsvWrite(out, buf, r.rows)
          IN /\ hist' = Append(hist, Entry(pp, unit, r.res, r.rows))
             /\ idmap' = idmap \cup {pp.Present}
             /\ out' = wr.out
             /\ buf' = wr.buf
             /\ unit' = [unit EXCEPT !.deckslice = r.deckslice]
             /\ IF r.res # "ok"
                THEN fatal' = r.res /\ pc' = "exit"
                ELSE fatal' = fatal /\ pc' = "records"
    /\ ghost' = [ghost EXCEPT !.entries = @ + 1]
    /\ UNCHANGED <<tool, opts, count, stats, errors>>
    /\ UNCHANGED parseVars

\* the records of the unit are exhausted
PPUnitEnd ==
    /\ pc = "records" /\ tool \in PPTools
    /\ pc' = "units"
    /\ unit' = NoUnit
    /\ UNCHANGED <<tool, opts, fatal, out, buf, idmap, count, stats, errors, hist, ghost>>
    /\ UNCHANGED parseVars

(***************************************************************************)
(* The linter: LintPP and RunCLI                                           *)
(***************************************************************************)
Incr(st, key) ==
    [st EXCEPT !.keys = @ \cup {key},
               !.units = IF key = "units" THEN @ + 1 ELSE @,
               !.records = IF key = "records" THEN @ + 1 ELSE @]

\* RunCLI after LintPP returned n: stats["errors"] = n, the stats line
LintReturn(o, st, n) ==
    LET st2 == [st EXCEPT !.keys = @ \cup {"errors"}, !.errors = n]
    IN [out |-> Append(o, StatsLine(st2)), stats |-> st2]

\* LintPP on a dataset without units, and the rest of RunCLI
LintEmpty ==
    /\ pc = "read" /\ tool = "lint"
    /\ LET r == LintReturn(Append(out, Msg(<<"Empty pp list!">>)), stats, errors + 1)
       IN out' = r.out /\ stats' = r.stats
    /\ errors' = errors + 1
    /\ pc' = "done"
    /\ UNCHANGED <<tool, opts, fatal, buf, idmap, count, unit, hist, ghost>>
    /\ UNCHANGED parseVars

\* LintPP on a dataset with units: the loop over the units starts
BeginLint ==
    /\ pc = "read" /\ tool = "lint"
    /\ pc' = "units"
    /\ UNCHANGED <<tool, opts, fatal, out, buf, idmap, count, unit, stats, errors, hist, ghost>>
    /\ UNCHANGED parseVars

\* a unit with k records that the unit filter passes over
LintUnitSkip ==
    /\ pc = "units" /\ tool = "lint"
    /\ ghost.units < MaxUnits
    /\ \E u \in LintUnits, k \in 0..(MaxEntries - ghost.entries) :
          /\ UnitFiltered(opts, u)
          /\ ghost' = [ghost EXCEPT !.units = @ + 1, !.entries = @ + k,
                                    !.filtered = @ + 1]
    /\ UNCHANGED <<tool, opts, pc, fatal, out, buf, idmap, count, unit, stats, errors, hist>>
    /\ UNCHANGED parseVars

\* one pass of the unit loop up to the loop over the records; the unit has
\* k records (empty = (k = 0)), read only if the pass gets to them
LintUnit ==
    /\ pc = "units" /\ tool = "lint"
    /\ ghost.units < MaxUnits
    /\ \E u \in LintUnits, k \in 0..(MaxEntries - ghost.entries) :
          LET msgs == LintUnitMsgs(u, k = 0) IN
          /\ ~UnitFiltered(opts, u)
          /\ stats' = Incr(stats, "units")
          /\ out' = out \o msgs
          /\ errors' = errors + Len(msgs)
          /\ hist' = Append(hist, Entry(<<>>, u, "unit", msgs))
          /\ IF k = 0 \/ LintLabel(u) = <<>>
             THEN /\ pc' = "units"
                  /\ unit' = NoUnit
                  /\ ghost' = [ghost EXCEPT !.units = @ + 1, !.entries = @ + k,
                                            !.broken = @ + k]
             ELSE /\ pc' = "lintrecs"
                  /\ unit' = u
                  /\ ghost' = [ghost EXCEPT !.units = @ + 1, !.inUnit = 0]
    /\ UNCHANGED <<tool, opts, fatal, buf, idmap, count>>
    /\ UNCHANGED parseVars

\* one pass of the loop over the records of a unit
LintRec ==
    /\ pc = "lintrecs" /\ tool = "lint"
    /\ ghost.entries < MaxEntries
    /\ \E rec \in LintPool :
          LET msgs == LintRecord(rec, LintLabel(unit)) IN
          /\ stats' = Incr(stats, "records")
          /\ out' = out \o msgs
          /\ errors' = errors + Len(msgs)
          /\ hist' = Append(hist, Entry(rec, unit, "ok", msgs))
    /\ ghost' = [ghost EXCEPT !.entries = @ + 1, !.inUnit = @ + 1]
    /\ UNCHANGED <<tool, opts, pc, fatal, buf, idmap, count, unit>>
    /\ UNCHANGED parseVars

\* the records of the unit (at least one) are exhausted
LintUnitEnd ==
    /\ pc = "lintrecs" /\ tool = "lint"
    /\ ghost.inUnit > 0
    /\ pc' = "units"
    /\ unit' = NoUnit
    /\ UNCHANGED <<tool, opts, fatal, out, buf, idmap, count, stats, errors, hist, ghost>>
    /\ UNCHANGED parseVars

\* the units (at least one) are exhausted: LintPP returns, RunCLI writes
\* the stats line
FinishLint ==
    /\ pc = "units" /\ tool = "lint"
    /\ ghost.units > 0
    /\ LET r == LintReturn(out, stats, errors)
       IN out' = r.out /\ stats' = r.stats
    /\ pc' = "done"
    /\ UNCHANGED <<tool, opts, fatal, buf, idmap, count, unit, errors, hist, ghost>>
    /\ UNCHANGED parseVars

Next ==
    \/ Main \/ ReadFail \/ BeginExport \/ FinishExport
    \/ VocabUnitSkip \/ VocabUnitEnter \/ VocabWord \/ VocabUnitEnd
    \/ PPUnitEnter \/ PPRecordSkip \/ PPRecord \/ PPUnitEnd
    \/ LintEmpty \/ BeginLint \/ LintUnitSkip \/ LintUnit \/ LintRec \/ LintUnitEnd
    \/ FinishLint

Spec == Init /\ [][Next]_vars

(***************************************************************************)
(* The segmenters on their own: a gloss is drawn, one segmenter is applied *)
(***************************************************************************)
Modes == {"prep_vocab", "prep_to_anki", "voice", "plural"}

\* the lexemes the glosses of a mode are drawn from
GlossTokens(m) ==
    CASE m \in {"prep_vocab", "prep_to_anki"} -> {"(+ acc.)", "(+gen)", "to", " ", ";"}
      [] m = "voice" -> {"(mid.)", "(pass.)", "(mid. or pass.)", "to", " ", ";"}
      [] OTHER -> {"(pl.)", "to", " ", ";"}

Glosses(m) == UNION {[1..n -> GlossTokens(m)] : n \in 0..MaxGlossLen}

NoResult == [done |-> FALSE, fatal |-> FALSE, list |-> <<>>]
\* the value a segmenter returned, as the state keeps it
Done(r) == [done |-> TRUE, fatal |-> r.fatal, list |-> r.list]

\* the variables of a tool run, idle while a segmenter is examined
IdleRun ==
    /\ tool = "none" /\ opts = <<>> /\ pc = "idle" /\ fatal = ""
    /\ out = <<>> /\ buf = <<>> /\ idmap = {} /\ count = 0
    /\ unit = <<>> /\ stats = <<>> /\ errors = 0 /\ hist = <<>> /\ ghost = <<>>

InitParse ==
    /\ mode \in Modes
    /\ gloss \in Glosses(mode)
    /\ result = NoResult
    /\ IdleRun

ApplyPrepVocab ==
    /\ mode = "prep_vocab" /\ ~result.done
    /\ result' = Done(parsePrepGlossesVocab(gloss))
    /\ UNCHANGED <<mode, gloss>> /\ UNCHANGED runVars

ApplyPrepToAnki ==
    /\ mode = "prep_to_anki" /\ ~result.done
    /\ result' = Done(parsePrepGlossesToAnki(gloss))
    /\ UNCHANGED <<mode, gloss>> /\ UNCHANGED runVars

ApplyVoice ==
    /\ mode = "voice" /\ ~result.done
    /\ result' = Done(parseVoiceGlosses(gloss))
    /\ UNCHANGED <<mode, gloss>> /\ UNCHANGED runVars

ApplyPlural ==
    /\ mode = "plural" /\ ~result.done
    /\ result' = Done(parsePluralGlosses(gloss))
    /\ UNCHANGED <<mode, gloss>> /\ UNCHANGED runVars

NextParse == ApplyPrepVocab \/ ApplyPrepToAnki \/ ApplyVoice \/ ApplyPlural

SpecParse == InitParse /\ [][NextParse]_vars

(***************************************************************************)
(* Properties of the segmenters                                            *)
(***************************************************************************)
Returned == result.done
Clauses == reSemicolonSplit(gloss)
FirstClauseMarked == reCaseMarker(Clauses[1]) # <<>>
GlossesOf(list) == [k \in 1..Len(list) |-> list[k].Gloss]

\* a clause with its leading case marker removed, nothing else
StripMarker(e) == IF reCaseMarker(e) # <<>> THEN Tail(e) ELSE e
\* a clause with its leading case marker removed and the rest trimmed
StripMarkerTrim(e) == IF reCaseMarker(e) # <<>> THEN TrimSpace(Tail(e)) ELSE e

\* C1 as stated: in case mode, for a gloss whose first clause starts with a
\* case marker, the segments' glosses joined with "; " are the input clauses
\* joined with "; ", the export_anki_vocab variant removing just the leading
\* case marker of each marked clause.
C1_RoundTripMarkerOnly ==
    (Returned /\ mode \in {"prep_vocab", "prep_to_anki"} /\ FirstClauseMarked) =>
        Join(GlossesOf(result.list), SepStr) =
            Join([k \in 1..Len(Clauses) |->
                    IF mode = "prep_vocab" THEN StripMarker(Clauses[k]) ELSE Clauses[k]],
                 SepStr)

\* C1 amended: the same round trip, where the export_anki_vocab variant
\* removes the leading case marker of each marked clause together with the
\* white space around the rest of that clause (the marker is kept in Marker);
\* the export_to_anki variant reproduces the clauses unchanged.
C1_RoundTrip ==
    (Returned /\ mode \in {"prep_vocab", "prep_to_anki"} /\ FirstClauseMarked) =>
        /\ Join(GlossesOf(result.list), SepStr) =
            Join([k \in 1..Len(Clauses) |->
                    IF mode = "prep_vocab" THEN StripMarkerTrim(Clauses[k]) ELSE Clauses[k]],
                 SepStr)
        /\ \A k \in 1..Len(result.list) :
              reCaseMarker(result.list[k].Marker) # <<>>

\* a case-mode run with two segments, a clause without marker after the
\* first one and white space behind a marker
C1_Witness ==
    /\ Returned /\ mode = "prep_vocab" /\ FirstClauseMarked
    /\ Len(result.list) = 2
    /\ \E k \in 2..Len(Clauses) : reCaseMarker(Clauses[k]) = <<>>
    /\ \E k \in 1..Len(Clauses) :
          reCaseMarker(Clauses[k]) # <<>> /\ StripMarker(Clauses[k]) # StripMarkerTrim(Clauses[k])

\* C2: in case mode a gloss whose first clause has no case marker ends in
\* the fatal error and returns no segments, whatever the later clauses are;
\* a gloss whose first clause has a case marker never ends in it.
C2_FirstClauseFatal ==
    (Returned /\ mode \in {"prep_vocab", "prep_to_anki"}) =>
        /\ result.fatal <=> ~FirstClauseMarked
        /\ result.fatal => result.list = <<>>

\* a fatal case-mode run whose later clause does carry a case marker
C2_Witness ==
    /\ Returned /\ mode = "prep_vocab" /\ result.fatal
    /\ \E k \in 2..Len(Clauses) : reCaseMarker(Clauses[k]) # <<>>

NumVoice(list, v) == Cardinality({k \in 1..Len(list) : list[k].Voice = v})
AtMostOnePerVoice(list) == NumVoice(list, "mid") <= 1 /\ NumVoice(list, "pass") <= 1

\* the voice of each clause, "" for a clause without voice marker
ClauseVoice(e) == IF reVoiceMarker(e) # <<>> THEN reVoiceMarker(e)[2] ELSE ""
\* two clauses of one voice with a clause of the other voice between them
Interleaved(cl) ==
    \E i, j, k \in 1..Len(cl) :
        /\ i < j /\ j < k
        /\ ClauseVoice(cl[i]) # "" /\ ClauseVoice(cl[i]) = ClauseVoice(cl[k])
        /\ ClauseVoice(cl[j]) # "" /\ ClauseVoice(cl[j]) # ClauseVoice(cl[i])

\* C3 as stated: the output of parseVoiceGlosses holds at most one segment
\* with Voice "mid" and at most one with Voice "pass", whatever the order of
\* the marked clauses.
C3_AtMostOnePerVoice ==
    (Returned /\ mode = "voice") => AtMostOnePerVoice(result.list)

\* C3 amended: when no clause carrying the other voice marker stands between
\* two clauses carrying the same voice marker, the output holds at most one
\* segment with Voice "mid" and at most one with Voice "pass".
C3_MergeWhenNotInterleaved ==
    (Returned /\ mode = "voice" /\ ~Interleaved(Clauses)) =>
        AtMostOnePerVoice(result.list)

\* two clauses with the same voice marker, a clause without marker between
\* them, merged into one segment
C3_Witness ==
    /\ Returned /\ mode = "voice" /\ ~Interleaved(Clauses)
    /\ \E i, k \in 1..Len(Clauses) :
          /\ i + 1 < k
          /\ ClauseVoice(Clauses[i]) = "mid" /\ ClauseVoice(Clauses[k]) = "mid"
          /\ ClauseVoice(Clauses[i + 1]) = ""
    /\ NumVoice(result.list, "mid") = 1

(***************************************************************************)
(* Properties of the tool runs                                             *)
(***************************************************************************)
Exporters == VocabTools \cup PPTools
IsRow(x) == x.kind = "row"
\* the CSV records written so far, in the order of cwtr.Write
AllRows == SelectSeq(out, IsRow) \o buf
RowCols(rows) == [k \in 1..Len(rows) |-> Row(rows[k])]

RECURSIVE HistRows(_)
HistRows(h) == IF h = <<>> THEN <<>> ELSE RowCols(Head(h).rows) \o HistRows(Tail(h))

RECURSIVE SumLen(_)
SumLen(h) == IF h = <<>> THEN 0 ELSE Len(Head(h).rows) + SumLen(Tail(h))

\* the segments of the segmenter that applies to a word: case for a
\* preposition, else voice when gr_mp is set, else plural when gr_pl is set
\* (export_to_anki knows only the case segmenter)
C4_Segments(t, w) ==
    IF w.Pos = "prep"
    THEN (IF t = "vocab" THEN parsePrepGlossesVocab(w.En) ELSE parsePrepGlossesToAnki(w.En)).list
    ELSE IF t = "vocab" /\ w.GrMP # <<>> THEN parseVoiceGlosses(w.En).list
    ELSE IF t = "vocab" /\ w.GrPl # <<>> THEN parsePluralGlosses(w.En).list
    ELSE <<>>

C4_Expected(t, w) == IF Len(C4_Segments(t, w)) > 1 THEN Len(C4_Segments(t, w)) ELSE 1

RECURSIVE C4_Sum(_, _)
C4_Sum(t, h) ==
    IF h = <<>> THEN 0
    ELSE (IF Head(h).res = "ok" THEN C4_Expected(t, Head(h).e) ELSE 0) + C4_Sum(t, Tail(h))

\* C4: exportVocab writes for each processed word k rows if the applicable
\* segmenter returns k > 1 segments and one row otherwise; the rows written
\* are those of the processed words, so their number is the sum.
C4_RowCount ==
    tool \in VocabTools =>
        /\ \A i \in 1..Len(hist) :
              hist[i].res = "ok" => Len(hist[i].rows) = C4_Expected(tool, hist[i].e)
        /\ AllRows = HistRows(hist)
        /\ Len(AllRows) = C4_Sum(tool, hist)
        /\ pc = "done" => (buf = <<>> /\ Len(SelectSeq(out, IsRow)) = C4_Sum(tool, hist))

\* a finished run that wrote two rows for one word and one row for a
\* preposition whose gloss has a single case segment
C4_Witness ==
    /\ tool = "vocab" /\ pc = "done" /\ fatal = ""
    /\ \E i, j \in 1..Len(hist) :
          /\ Len(hist[i].rows) = 2
          /\ hist[j].e.Pos = "prep" /\ Len(C4_Segments(tool, hist[j].e)) = 1
          /\ Len(hist[j].rows) = 1

EntryFatals == {"gloss", "dup", "pos", "paren"}

\* C5: when a run ends in a fatal error raised while processing entries,
\* nothing has been written to the output writer, neither header lines nor
\* CSV rows.
C5_NoOutputOnFatal == fatal \in EntryFatals => out = <<>>

\* C6 as stated: every successful run of every tool ends its output with a
\* JSON stats line, written after the header lines and all rows / messages.
C6_StatsLineLast ==
    pc = "done" =>
        /\ out # <<>>
        /\ out[Len(out)].kind = "stats"
        /\ \A k \in 1..(Len(out) - 1) : out[k].kind # "stats"

\* C6 amended: a successful run of the linter ends its output with a JSON
\* stats line written after all lint messages; a successful run of an
\* exporter writes its header lines, then all its CSV rows, and no stats
\* line; no tool writes a stats line before the end of the run.
C6_StatsLineLintOnly ==
    /\ pc # "done" => \A k \in 1..Len(out) : out[k].kind # "stats"
    /\ (pc = "done" /\ tool = "lint") =>
          /\ out # <<>>
          /\ out[Len(out)].kind = "stats"
          /\ \A k \in 1..(Len(out) - 1) : out[k].kind = "msg"
    /\ (pc = "done" /\ tool \in Exporters) =>
          /\ \A k \in 1..Len(out) : out[k].kind \in {"line", "row"}
          /\ \A k, l \in 1..Len(out) :
                (out[k].kind = "line" /\ out[l].kind = "row") => k < l
          /\ SelectSeq(out, IsRow) = HistRows(hist)

\* a finished linter run whose stats line follows lint messages
C6_Witness ==
    /\ pc = "done" /\ tool = "lint"
    /\ Len(out) >= 3
    /\ out[Len(out)].kind = "stats"
    /\ \E i \in 1..Len(hist) : hist[i].res = "ok" /\ hist[i].rows # <<>>

\* C7: with -c/--count N > 0 the number of words rows are written for is
\* min(N, number of words in the selected units).  The words of the selected
\* units are those the loop body ran for and those a break left unread.
C7_CountLimit ==
    (tool \in VocabTools /\ opts.Count > 0 /\ pc = "done") =>
        Len(hist) = Min(opts.Count, Len(hist) + ghost.broken)

\* the id of an entry as the claim describes it: a word's explicit id, else
\* its Greek headword up to the first comma; a verb record's present form
C8_Id(t, e) ==
    IF t \in PPTools THEN e.Present
    ELSE IF e.Id # <<>> THEN e.Id
    ELSE IF \E k \in 1..Len(e.Gr) : e.Gr[k] = ","
         THEN SubSeq(e.Gr, 1, (CHOOSE k \in 1..Len(e.Gr) :
                                  e.Gr[k] = "," /\ \A j \in 1..(k - 1) : e.Gr[j] # ",") - 1)
         ELSE e.Gr

\* C8: an entry whose id an earlier processed entry has ends the run in the
\* duplicate-id fatal error, with no row written for it; no other entry
\* does, so a run that completes has pairwise distinct ids.
C8_DuplicateIdsFatal ==
    tool \in Exporters =>
        /\ \A i \in 1..Len(hist) :
              LET dup == \E j \in 1..(i - 1) :
                            C8_Id(tool, hist[j].e) = C8_Id(tool, hist[i].e)
              IN /\ hist[i].res = "dup" <=> dup
                 /\ hist[i].res = "dup" =>
                       /\ hist[i].rows = <<>>
                       /\ i = Len(hist)
                       /\ fatal = "dup" /\ pc = "exit"
        /\ AllRows = HistRows(hist)
        /\ pc = "done" =>
              \A i, j \in 1..Len(hist) :
                  i # j => C8_Id(tool, hist[i].e) # C8_Id(tool, hist[j].e)

\* a vocab run ended by a word whose explicit id is the headword, cut at its
\* comma, of an earlier word
C8_Witness ==
    /\ tool = "vocab" /\ fatal = "dup" /\ pc = "exit"
    /\ Len(hist) >= 2
    /\ hist[Len(hist)].e.Id # <<>>
    /\ \E j \in 1..(Len(hist) - 1) :
          /\ hist[j].e.Id = <<>>
          /\ hist[j].e.Gr # C8_Id(tool, hist[j].e)
          /\ C8_Id(tool, hist[j].e) = hist[Len(hist)].e.Id

\* the last column of a row names the unit with number n
DeckOfUnit(row, n) ==
    LET d == row.v[5] IN
    Len(d) >= 2 /\ SubSeq(d, Len(d) - 1, Len(d)) = <<"Unit ", ToString(n)>>

\* C9: with -u/--unit U > 0, whatever is processed (and so every row
\* written, every unit and record counted or linted) belongs to a unit with
\* number U, and the rows, ids and counters are those of the processed
\* entries alone; with U = 0 no unit is passed over.
C9_UnitFilter ==
    tool \in AllTools =>
        /\ opts.Unit > 0 => \A i \in 1..Len(hist) : hist[i].u = opts.Unit
        /\ opts.Unit = 0 => ghost.filtered = 0
        /\ tool \in Exporters =>
              /\ AllRows = HistRows(hist)
              /\ opts.Unit > 0 => \A k \in 1..Len(AllRows) : DeckOfUnit(AllRows[k], opts.Unit)
              /\ idmap = {C8_Id(tool, hist[i].e) : i \in 1..Len(hist)}
        /\ tool \in VocabTools =>
              count = Cardinality({i \in 1..Len(hist) : hist[i].res = "ok"})
                      + (IF pc \in {"main", "read"} \/ fatal = "read" THEN 0 ELSE 1)
        /\ tool = "lint" =>
              /\ stats.units = Cardinality({i \in 1..Len(hist) : hist[i].res = "unit"})
              /\ stats.records = Cardinality({i \in 1..Len(hist) : hist[i].res = "ok"})
              /\ errors = SumLen(hist) + (IF pc = "done" /\ ghost.units = 0 THEN 1 ELSE 0)

\* a finished run with -u 5 that passed over a unit and wrote rows
C9_Witness ==
    /\ tool = "vocab" /\ pc = "done" /\ opts.Unit = 5
    /\ ghost.filtered > 0 /\ ghost.entries > Len(hist) + ghost.broken
    /\ AllRows # <<>>

\* the label tags of rows, a part's two alternates counted once
RECURSIVE RowTags(_)
RowTags(rows) ==
    IF rows = <<>> THEN <<>>
    ELSE LET rest == RowTags(Tail(rows))
             tag == Head(rows)[4][2]
         IN IF rest # <<>> /\ Head(rest) = tag THEN rest ELSE <<tag>> \o rest

\* the label tags of the non-empty parts 2..6 of a record whose number is
\* at most n, in the order Future, Aorist, Perfect, Perfect Middle, Aorist
\* Passive
C10_Expected(e, n) ==
    LET all == << <<2, "future", e.Future>>, <<3, "aorist", e.Aorist>>,
                  <<4, "perfect", e.Perfect>>, <<5, "perfect_middle", e.PerfMid>>,
                  <<6, "aorist_passive", e.AorPass>> >>
        sel == SelectSeq(all, LAMBDA x : x[1] <= n /\ x[3] # <<>>)
    IN [k \in 1..Len(sel) |-> sel[k][2]]

IsPrefix(a, b) == Len(a) <= Len(b) /\ a = SubSeq(b, 1, Len(a))

C11_Sub(tag) ==
    CASE tag \in {"future", "aorist"} -> "PPA"
      [] tag = "aorist_passive" -> "PPB"
      [] tag \in {"perfect", "perfect_middle"} -> "PPC"
      [] OTHER -> "?"

\* the deck name of a row of a unit with number n
C11_Deck(row, n) ==
    IF opts.Incremental
    THEN formatDeckname(opts) \o <<"::", C11_Sub(row[4][2]), "::">> \o <<"Unit ", ToString(n)>>
    ELSE formatDeckname(opts) \o <<"::">> \o <<"Unit ", ToString(n)>>

\* C11: every row of export_anki_pp has the deck name
\* "<deckname>::<sub>::<unit name>" with -i, sub being PPA for Future and
\* Aorist, PPB for Aorist Passive and PPC for Perfect and Perfect Middle,
\* whatever was exported before it, and "<deckname>::<unit name>" without -i.
C11_IncrementalSubdecks ==
    tool = "anki_pp" =>
        /\ AllRows = HistRows(hist)
        /\ \A i \in 1..Len(hist) : \A k \in 1..Len(hist[i].rows) :
              hist[i].rows[k][5] = C11_Deck(hist[i].rows[k], hist[i].u)

\* a finished run with -i in which an Aorist Passive row (PPB) of one
\* record is followed by the Aorist row (PPA) of a record without Future
C11_Witness ==
    /\ tool = "anki_pp" /\ opts.Incremental /\ pc = "done"
    /\ \E k \in 1..(Len(AllRows) - 1) :
          /\ AllRows[k].v[4][2] = "aorist_passive"
          /\ AllRows[k + 1].v[4][2] = "aorist"
          /\ \E a, b \in 1..Len(AllRows[k].v[5]) :
                AllRows[k].v[5][a] = "PPB" /\ AllRows[k + 1].v[5][b] = "PPA"

\* the options of the run without -r/--rev
C12_Forward == [opts EXCEPT !.Reverse = FALSE]

\* what the record loop writes for the record of a history entry when the
\* run is made without -r/--rev
C12_ForwardRows(h) ==
    LET u == Unit(h.u, <<"Unit ", ToString(h.u)>>)
    IN PartsLoop(tool, C12_Forward, h.e.Present, PartList(h.e), 1, <<>>,
                 InitDeckslice(tool, C12_Forward, u))

\* C12: the rows a run with -r/--rev writes for a record are as many as,
\* and in the order of, the rows the run without it writes; each has the ID
\* (the form) and the tags of the forward row and its Front and Back are the
\* Back and Front of the forward row; forward rows have ID = Front = form,
\* reverse rows ID = Back = form.
C12_ReverseSwaps ==
    (tool \in {"anki_pp", "pp_rev"}) =>
        /\ AllRows = HistRows(hist)
        /\ \A i \in 1..Len(hist) :
              hist[i].res \in {"ok", "paren"} =>
                 LET rev == hist[i].rows
                     fwd == C12_ForwardRows(hist[i])
                 IN /\ fwd.res = hist[i].res
                    /\ Len(rev) = Len(fwd.rows)
                    /\ \A k \in 1..Len(rev) :
                          IF opts.Reverse
                          THEN /\ rev[k][1] = fwd.rows[k][1]
                               /\ rev[k][4] = fwd.rows[k][4]
                               /\ rev[k][2] = fwd.rows[k][3]
                               /\ rev[k][3] = fwd.rows[k][2]
                               /\ rev[k][1] = rev[k][3]
                               /\ fwd.rows[k][1] = fwd.rows[k][2]
                          ELSE /\ rev[k] = fwd.rows[k]
                               /\ rev[k][1] = rev[k][2]

\* a finished run with -r that wrote the two rows of a part with alternates,
\* the description in front
C12_Witness ==
    /\ tool \in {"anki_pp", "pp_rev"} /\ opts.Reverse /\ pc = "done"
    /\ \E i \in 1..Len(hist) :
          /\ Len(hist[i].rows) >= 3
          /\ \E k \in 1..Len(hist[i].rows) :
                /\ hist[i].rows[k][2] # hist[i].rows[k][3]
                /\ hist[i].rows[k][2][2] = " #2"

(***************************************************************************)
(* Further properties of the segmenters                                    *)
(***************************************************************************)
AllClausesNonEmpty == \A k \in 1..Len(Clauses) : Clauses[k] # <<>>
\* whether a clause starts with the marker of the mode
ClauseMarked(e) ==
    CASE mode = "voice" -> reVoiceMarker(e) # <<>>
      [] mode = "plural" -> rePluralMarker(e) # <<>>
      [] OTHER -> reCaseMarker(e) # <<>>
SegmentMarked(cg) == cg.Voice # "" \/ cg.Plural

\* C13: in voice and plural mode, for a gloss whose clauses are all
\* non-empty, the segments' glosses joined with "; " are the input clauses
\* joined with "; "; a clause without marker goes to the open segment, or
\* opens a first segment without marker when none is open, so a segment
\* without marker can only be the first one and is there exactly when the
\* first clause has no marker.
C13_ClausesKept ==
    (Returned /\ mode \in {"voice", "plural"} /\ AllClausesNonEmpty) =>
        /\ ~result.fatal
        /\ Join(GlossesOf(result.list), SepStr) = Join(Clauses, SepStr)
        /\ \A k \in 2..Len(result.list) : SegmentMarked(result.list[k])
        /\ result.list # <<>>
        /\ SegmentMarked(result.list[1]) <=> ClauseMarked(Clauses[1])
        /\ IsPrefix(Clauses[1], result.list[1].Gloss)

\* a voice-mode run in which a clause without marker opens the first
\* segment and another one is appended to the segment a marker opened
C13_Witness ==
    /\ Returned /\ mode = "voice" /\ AllClausesNonEmpty
    /\ Len(Clauses) = 3 /\ Len(result.list) = 2
    /\ ~ClauseMarked(Clauses[1]) /\ ClauseMarked(Clauses[2]) /\ ~ClauseMarked(Clauses[3])

\* the clauses that start with a case marker, resp. with "(pl.)"
C14_CaseClauses == {k \in 1..Len(Clauses) : Clauses[k] # <<>> /\ Head(Clauses[k]) \in CaseMarkerTokens}
C14_PluralClauses == {k \in 1..Len(Clauses) : Clauses[k] # <<>> /\ Head(Clauses[k]) = "(pl.)"}

\* C14: a parsePrepGlosses call that does not end in the fatal error returns
\* as many segments as there are clauses starting with a case marker, and
\* parsePluralGlosses returns as many segments with Plural = true as there
\* are clauses starting with "(pl.)", consecutive equal markers included.
C14_SegmentPerMatch ==
    /\ (Returned /\ mode \in {"prep_vocab", "prep_to_anki"} /\ ~result.fatal) =>
          /\ Len(result.list) = Cardinality(C14_CaseClauses)
          /\ \A k \in 1..Len(result.list) : result.list[k].Case # ""
    /\ (Returned /\ mode = "plural") =>
          /\ ~result.fatal
          /\ Cardinality({k \in 1..Len(result.list) : result.list[k].Plural})
                = Cardinality(C14_PluralClauses)

\* a case-mode run over two consecutive clauses with the same case marker
\* that returned two segments
C14_Witness ==
    /\ Returned /\ mode = "prep_to_anki" /\ ~result.fatal
    /\ Len(result.list) = 2
    /\ Len(Clauses) = 2 /\ C14_CaseClauses = {1, 2}
    /\ Head(Clauses[1]) = Head(Clauses[2])

\* the segments parseVoiceGlosses returns for the first k clauses: the
\* closed segments followed by the open one (if its Gloss is non-empty)
C15_After(k) == VoiceLoop(SubSeq(Clauses, 1, k), 1, EmptyCVG, <<>>).list

\* C15: in parseVoiceGlosses a clause whose voice marker is the Voice of the
\* open segment opens no segment: the clause, marker included, is appended
\* with "; " to the Gloss of the open segment; a clause with another voice
\* marker closes the open segment (kept if its Gloss is non-empty) and opens
\* a segment with the new Voice and the clause as Gloss.
C15_VoiceMerge ==
    (Returned /\ mode = "voice") =>
        /\ result.list = C15_After(Len(Clauses))
        /\ \A k \in 0..(Len(Clauses) - 1) :
              LET before == C15_After(k)
                  after == C15_After(k + 1)
                  entry == Clauses[k + 1]
                  voice == ClauseVoice(entry)
                  n == Len(before)
              IN voice # "" =>
                    IF n > 0 /\ before[n].Voice = voice
                    THEN /\ Len(after) = n
                         /\ SubSeq(after, 1, n - 1) = SubSeq(before, 1, n - 1)
                         /\ after[n].Voice = voice
                         /\ after[n].Gloss = before[n].Gloss \o <<";", " ">> \o entry
                    ELSE /\ Len(after) = n + 1
                         /\ SubSeq(after, 1, n) = before
                         /\ after[n + 1].Voice = voice
                         /\ after[n + 1].Gloss = entry

\* a voice-mode run with a "(mid.)" clause merged into the open mid segment
\* and a "(pass.)" clause that closed it
C15_Witness ==
    /\ Returned /\ mode = "voice"
    /\ Len(Clauses) = 3 /\ Len(result.list) = 2
    /\ ClauseVoice(Clauses[1]) = "mid" /\ ClauseVoice(Clauses[2]) = "mid"
    /\ ClauseVoice(Clauses[3]) = "pass"
    /\ result.list[1].Voice = "mid" /\ result.list[2].Voice = "pass"

(***************************************************************************)
(* Further properties of the tool runs                                     *)
(***************************************************************************)
\* the parts of a record that the run hands to exportEntry, in order
C16_Wanted(e) ==
    LET all == << <<2, e.Future>>, <<3, e.Aorist>>, <<4, e.Perfect>>,
                  <<5, e.PerfMid>>, <<6, e.AorPass>> >>
        sel == SelectSeq(all, LAMBDA x :
                   x[2] # <<>> /\ (tool \in NumTools => x[1] <= opts.Num))
    IN [k \in 1..Len(sel) |-> sel[k][2]]

\* an alternate with the opening parenthesis and without the closing one
C16_Unclosed(s) == reAlternates(s) # <<>> /\ reAlternates(s)[1] # <<>> /\ reAlternates(s)[5] = <<>>
\* an alternate with both parentheses
C16_Closed(s) == reAlternates(s) # <<>> /\ reAlternates(s)[1] # <<>> /\ reAlternates(s)[5] # <<>>

\* C16: in every principal-parts exporter the pass over a record ends in the
\* fatal error "missing paren2 in alternate" exactly when one of its parts
\* has the opening parenthesis without the closing one, and a part
\* "(A or B)" / "(A and B)" with both parentheses gives the two rows with the
\* forms "(A)" and "(B)".
C16_ParenAlternates ==
    tool \in PPTools =>
        \A i \in 1..Len(hist) :
            hist[i].res \in {"ok", "paren"} =>
               LET w == C16_Wanted(hist[i].e) IN
               /\ hist[i].res = "paren" <=> \E k \in 1..Len(w) : C16_Unclosed(w[k])
               /\ hist[i].res = "ok" =>
                     \A k \in 1..Len(w) :
                         C16_Closed(w[k]) =>
                            \E r \in 1..(Len(hist[i].rows) - 1) :
                                /\ hist[i].rows[r][1] = <<"(">> \o reAlternates(w[k])[2] \o <<")">>
                                /\ hist[i].rows[r + 1][1] = <<"(">> \o reAlternates(w[k])[4] \o <<")">>

\* the same statement for export_anki_pp alone
C16_ParenAlternatesAnkiPP == tool = "anki_pp" => C16_ParenAlternates

\* the labels of the parts 2..6
C17_Label(n) ==
    CASE n = 2 -> "Future" [] n = 3 -> "Aorist" [] n = 4 -> "Perfect"
      [] n = 5 -> "Perfect Middle" [] OTHER -> "Aorist Passive"

\* the parts of a record handed to exportEntry, with their numbers
C17_Wanted(e) ==
    SelectSeq(<< <<2, e.Future>>, <<3, e.Aorist>>, <<4, e.Perfect>>,
                 <<5, e.PerfMid>>, <<6, e.AorPass>> >>,
              LAMBDA x : x[2] # <<>> /\ (tool \in NumTools => x[1] <= opts.Num))

\* <<form, description>> of the rows the claim expects for one part
C17_PartRows(id, x) ==
    LET m == reAlternates(x[2])
        label == C17_Label(x[1])
        form(f) == IF m[1] # <<>> THEN <<"(">> \o f \o <<")">> ELSE f
        meaning == IF m[3] = "or" THEN " (same meaning)" ELSE " (diff. meaning)"
    IN IF m = <<>>
       THEN << <<x[2], <<label, " of ">> \o id>> >>
       ELSE << <<form(m[2]), <<label, " #1", " of ">> \o id \o <<meaning>> >>,
               <<form(m[4]), <<label, " #2", " of ">> \o id \o <<meaning>> >> >>

RECURSIVE C17_Rows(_, _)
C17_Rows(id, w) ==
    IF w = <<>> THEN <<>> ELSE C17_PartRows(id, Head(w)) \o C17_Rows(id, Tail(w))

\* <<form, description>> of the rows written
C17_Written(rows) ==
    [k \in 1..Len(rows) |->
        <<rows[k][1], IF opts.Reverse THEN rows[k][2] ELSE rows[k][3]>>]

\* C17: for every non-empty part handed to exportEntry, two rows are
\* written when the string holds two Greek forms joined by "or" or "and",
\* first form then second form, the descriptions carrying " #1" and " #2"
\* and " (same meaning)" / " (diff. meaning)", and one row without number
\* and suffix otherwise (a record with a part whose opening parenthesis has
\* no closing one, the fatal error of C16, left aside).
C17_AlternatesSplit ==
    tool \in PPTools =>
        \A i \in 1..Len(hist) :
            (/\ hist[i].res \in {"ok", "paren"}
             /\ \A k \in 1..Len(C16_Wanted(hist[i].e)) : ~C16_Unclosed(C16_Wanted(hist[i].e)[k]))
            => C17_Written(hist[i].rows) = C17_Rows(hist[i].e.Present, C17_Wanted(hist[i].e))

\* the same statement for export_anki_pp alone
C17_AlternatesSplitAnkiPP == tool = "anki_pp" => C17_AlternatesSplit

\* the ID column of the rows written, in order
C18_Ids == [k \in 1..Len(AllRows) |-> AllRows[k].v[1]]

\* C18: in an export run that completes without fatal error no two rows
\* written have the same value in the ID column.
C18_RowIdsUnique ==
    (tool \in Exporters /\ pc = "done" /\ fatal = "") =>
        \A k, l \in 1..Len(C18_Ids) : k # l => C18_Ids[k] # C18_Ids[l]

====
